---- MODULE Spec2Model ----
(***************************************************************************)
(* A model of registrable.Registrable (src/registrable/__init__.py): the   *)
(* per-base-class registry of named subclasses, its registration protocol  *)
(* (register, hook), its resolution protocol (by_name with the fully       *)
(* qualified class name fallback) and its enumeration (list_available,     *)
(* is_registered, iter_registered).                                        *)
(*                                                                         *)
(* Strings are sequences of one-character strings, so that split(".") and  *)
(* ".".join(...) are computed.  A dict is a sequence of (key, value)       *)
(* entries in insertion order.  Class attributes (_hooks,                  *)
(* default_implementation) are looked up along the base-class chain, as    *)
(* Python does.                                                            *)
(***************************************************************************)
EXTENDS Integers, Sequences, FiniteSets, TLC

VARIABLES
    registry,      \* Registrable._registry: base class -> ordered dict name -> subclass
    hooksAttr,     \* the _hooks attribute each base class holds in its own __dict__
    defaultAttr,   \* the default_implementation attribute each base class holds itself
    pending,       \* the decorator returned by register(...) and not yet applied
    memoized,      \* history: the (class, name, subclass) entries by_name's fallback stored
    threads,       \* each thread's position inside the call it is making
    last           \* the last call: its arguments and what the caller observed

vars == <<registry, hooksAttr, defaultAttr, pending, memoized, threads, last>>

----------------------------------------------------------------------------
(* Bounds of the model *)

\* entries one namespace may hold
MaxEntries == 3
\* hooks one default-hook list may hold
MaxHooks == 2

----------------------------------------------------------------------------
(* Strings *)

Dot == "."

NameX == <<"x">>
NameY == <<"y">>
NamePMC == <<"p", ".", "m", ".", "C">>
NamePMD == <<"p", ".", "m", ".", "D">>
NamePME == <<"p", ".", "m", ".", "E">>
NamePMf == <<"p", ".", "m", ".", "f">>
NamePMN == <<"p", ".", "m", ".", "N">>
NamePNC == <<"p", ".", "n", ".", "C">>
NamePEC == <<"p", ".", "e", ".", "C">>
NameDotC == <<".", "C">>
NameDotDotC == <<".", ".", "C">>
NoName == <<>>

HasDot(s) == \E i \in 1..Len(s) : s[i] = Dot

\* str.split("."): the pieces between the separators, empty pieces included
RECURSIVE Split(_)
Split(s) ==
    IF ~HasDot(s) THEN <<s>>
    ELSE LET i == CHOOSE k \in 1..Len(s) : s[k] = Dot /\ \A j \in 1..(k - 1) : s[j] # Dot
         IN  <<SubSeq(s, 1, i - 1)>> \o Split(SubSeq(s, i + 1, Len(s)))

\* ".".join(parts)
RECURSIVE Join(_)
Join(parts) ==
    IF parts = <<>> THEN <<>>
    ELSE IF Len(parts) = 1 THEN parts[1]
    ELSE parts[1] \o <<Dot>> \o Join(Tail(parts))

\* submodule = ".".join(parts[:-1])
SubmoduleOf(name) == LET parts == Split(name) IN Join(SubSeq(parts, 1, Len(parts) - 1))

\* class_name = parts[-1]
ClassNameOf(name) == LET parts == Split(name) IN parts[Len(parts)]

----------------------------------------------------------------------------
(* Classes and other values a decorator may be applied to *)

\* the first base of each class; A and B are the registrable base classes,
\* B derived from A
ClassBases ==
    [c \in {"Registrable", "A", "B", "A1", "A2", "B1", "C", "X"} |->
        CASE c = "Registrable" -> "object"
          [] c = "A"  -> "Registrable"
          [] c = "B"  -> "A"
          [] c = "A1" -> "A"
          [] c = "A2" -> "A"
          [] c = "B1" -> "B"
          [] c = "C"  -> "A"
          [] c = "X"  -> "object"]

BaseTypes == {"A", "B"}

\* inspect.isclass
IsClass(v) == v \in DOMAIN ClassBases

\* issubclass(v, cls) for a class v
RECURSIVE IsSubclass(_, _)
IsSubclass(v, cls) ==
    \/ v = cls
    \/ v \in DOMAIN ClassBases /\ IsSubclass(ClassBases[v], cls)

\* not (not inspect.isclass(v) or not issubclass(v, cls))
Conforms(v, cls) == IsClass(v) /\ IsSubclass(v, cls)

\* v.__name__ exists: classes and functions have it, a plain instance ("obj") has not
HasDunderName(v) == IsClass(v) \/ v = "fn"

----------------------------------------------------------------------------
(* Hooks *)

Hooks == {"h1", "h2", "hx"}

\* hx raises when called; h1 and h2 return
HookRaises(h) == h = "hx"

----------------------------------------------------------------------------
(* The module loader: importlib.import_module and getattr *)

\* the importable modules and their members: p.m holds a subclass of A, a
\* class that is no subclass, a subclass of B (and so of A), and a function
ModuleMembers(path) ==
    IF path = <<"p", ".", "m">>
    THEN [n \in {<<"C">>, <<"D">>, <<"E">>, <<"f">>} |->
            CASE n = <<"C">> -> "C" [] n = <<"D">> -> "X" [] n = <<"E">> -> "B1"
              [] n = <<"f">> -> "fn"]
    ELSE [n \in {} |-> "none"]

\* what importlib.import_module(path) does: "module", or the exception it raises
ImportModule(path) ==
    IF path # <<>> /\ path[1] = Dot THEN "TypeError"
    ELSE IF path = <<>> THEN "ValueError"
    ELSE IF path = <<"p", ".", "m">> THEN "module"
    ELSE IF path = <<"p", ".", "e">> THEN "ImportError"
    ELSE "ModuleNotFoundError"

----------------------------------------------------------------------------
(* Ordered dicts *)

Keys(d) == [i \in 1..Len(d) |-> d[i].name]

HasKey(d, name) == \E i \in 1..Len(d) : d[i].name = name

IndexOf(d, name) == CHOOSE i \in 1..Len(d) : d[i].name = name

\* d[name]
Get(d, name) == d[IndexOf(d, name)].impl

\* a dict whose assignment moves an existing key to the end
Put_MovesLast(d, name, impl) ==
    SelectSeq(d, LAMBDA e : e.name # name) \o <<[name |-> name, impl |-> impl]>>

\* a dict whose assignment drops the other keys
Put_Alone(d, name, impl) == <<[name |-> name, impl |-> impl]>>

\* a dict whose assignment leaves an existing key's value alone
Put_KeepsOld(d, name, impl) ==
    IF HasKey(d, name) THEN d ELSE Append(d, [name |-> name, impl |-> impl])

\* d[name] = impl: an existing key keeps its place, a new key goes last
Put(d, name, impl) ==
    IF HasKey(d, name)
    THEN [d EXCEPT ![IndexOf(d, name)] = [name |-> name, impl |-> impl]]
    ELSE Append(d, [name |-> name, impl |-> impl])

----------------------------------------------------------------------------
(* Class attribute lookup *)

NoAttr == [has |-> FALSE, list |-> <<>>]

\* the class along cls's base chain whose own _hooks is what cls._hooks reads;
\* "None" when it is Registrable._hooks = None
RECURSIVE HooksOwner(_, _)
HooksOwner(attr, cls) ==
    IF cls \notin BaseTypes THEN "None"
    ELSE IF attr[cls].has THEN cls
    ELSE HooksOwner(attr, ClassBases[cls])

\* cls._hooks as a list (None reads as the empty list)
HooksOf(attr, cls) ==
    LET o == HooksOwner(attr, cls) IN IF o = "None" THEN <<>> ELSE attr[o].list

NoDefault == [kind |-> "absent", val |-> NoName]
NoneDefault == [kind |-> "None", val |-> NoName]
StrDefault(name) == [kind |-> "str", val |-> name]

\* cls.default_implementation: the nearest class of the chain that holds the
\* attribute itself; Registrable.default_implementation = None ends the chain
RECURSIVE DefaultOf(_, _)
DefaultOf(attr, cls) ==
    IF cls \notin BaseTypes THEN NoneDefault
    ELSE IF attr[cls].kind # "absent" THEN attr[cls]
    ELSE DefaultOf(attr, ClassBases[cls])

----------------------------------------------------------------------------
(* What a call hands back to its caller *)

\* exc: "none" or the exception's type; msg: which message a RegistrationError
\* carries; ret, seq, bool: the value returned; warnings: warn() calls made;
\* calls: the hook calls made, in order; loads: the import_module calls made
NoCall ==
    [op |-> "none", cls |-> "-", name |-> NoName, arg |-> "-", override |-> FALSE,
     hooks |-> <<>>, exc |-> "none", msg |-> "-", ret |-> "-", seq |-> <<>>,
     bool |-> FALSE, warnings |-> 0, calls |-> <<>>, loads |-> <<>>]

Raise(exc, msg) == [exc |-> exc, msg |-> msg]

----------------------------------------------------------------------------
(* register: src/registrable/__init__.py lines 49-97 *)

NoDecorator ==
    [active |-> FALSE, cls |-> "-", name |-> NoName, override |-> FALSE,
     hooks |-> <<>>, dh |-> "fresh"]

\* default_hooks = cls._hooks or []: the list object cls._hooks reads when it
\* is non-empty (named by the class that owns it), a fresh empty list otherwise
CapturedHooks(attr, cls) ==
    IF HooksOf(attr, cls) = <<>> THEN "fresh" ELSE HooksOwner(attr, cls)

\* the closure add_subclass_to_registry that register(name, override, hooks) returns
MakeDecorator(attr, cls, name, override, hooks) ==
    [active |-> TRUE, cls |-> cls, name |-> name, override |-> override,
     hooks |-> hooks, dh |-> CapturedHooks(attr, cls)]

\* the contents of the closure's default_hooks when the closure runs
DefaultHooksOf(attr, d) == IF d.dh = "fresh" THEN <<>> ELSE attr[d.dh].list

\* default_hooks + (hooks or [])
HooksToRun(attr, d) == DefaultHooksOf(attr, d) \o d.hooks

\* the position of the first hook that raises, 0 when none does
FirstRaise(hs) ==
    IF \E i \in 1..Len(hs) : HookRaises(hs[i])
    THEN CHOOSE i \in 1..Len(hs) : HookRaises(hs[i]) /\ \A j \in 1..(i - 1) : ~HookRaises(hs[j])
    ELSE 0

\* for hook in ...: hook(subclass, name), stopping at the first hook that raises;
\* stored: whether the namespace r the hooks run against holds subclass under name
RunHooks(hs, subclass, name, r) ==
    LET k == FirstRaise(hs)
        n == IF k = 0 THEN Len(hs) ELSE k
    IN  [i \in 1..n |->
            [hook |-> hs[i], impl |-> subclass, name |-> name,
             stored |-> HasKey(r, name) /\ Get(r, name) = subclass]]

\* the subclass check of line 77, and the exception its failure raises: the
\* message reads subclass.__name__
CheckSubclass(subclass, cls) ==
    IF Conforms(subclass, cls) THEN Raise("none", "-")
    ELSE IF HasDunderName(subclass) THEN Raise("RegistrationError", "must be a subclass")
    ELSE Raise("AttributeError", "-")

\* a name check that lets every name through
CheckName_NoCheck(r, name, override) == Raise("none", "-")

\* the name check of lines 84-89: the exception raised for a name in use
CheckName(r, name, override) ==
    IF HasKey(r, name) /\ ~override THEN Raise("RegistrationError", "name already in use")
    ELSE Raise("none", "-")

\* warning on every override = True, whether or not the name is in use
OverrideWarnings_Always(r, name, override) == IF override THEN 1 ELSE 0

\* the warn() calls of lines 90-91
OverrideWarnings(r, name, override) == IF HasKey(r, name) /\ override THEN 1 ELSE 0

\* a registration into one namespace shared along the base-class chain: the
\* entry goes to every base class the subclass conforms to
AddSubclassToRegistry_Shared(reg, attr, d, subclass) ==
    LET r == reg[d.cls]
        c1 == CheckSubclass(subclass, d.cls)
        c2 == CheckName(r, d.name, d.override)
        r2 == Put(r, d.name, subclass)
        raised == FirstRaise(HooksToRun(attr, d)) # 0
    IN  IF c1.exc # "none"
        THEN [exc |-> c1.exc, msg |-> c1.msg, ret |-> "-", warnings |-> 0,
              calls |-> <<>>, reg |-> reg]
        ELSE IF c2.exc # "none"
        THEN [exc |-> c2.exc, msg |-> c2.msg, ret |-> "-", warnings |-> 0,
              calls |-> <<>>, reg |-> reg]
        ELSE [exc |-> IF raised THEN "HookError" ELSE "none",
              msg |-> "-",
              ret |-> IF raised THEN "-" ELSE subclass,
              warnings |-> OverrideWarnings(r, d.name, d.override),
              calls |-> RunHooks(HooksToRun(attr, d), subclass, d.name, r2),
              reg |-> [c \in BaseTypes |->
                          IF Conforms(subclass, c) THEN Put(reg[c], d.name, subclass)
                          ELSE reg[c]]]

\* a registration that takes the entry back when one of its hooks raises
AddSubclassToRegistry_Transactional(reg, attr, d, subclass) ==
    LET r == reg[d.cls]
        c1 == CheckSubclass(subclass, d.cls)
        c2 == CheckName(r, d.name, d.override)
        r2 == Put(r, d.name, subclass)
        raised == FirstRaise(HooksToRun(attr, d)) # 0
    IN  IF c1.exc # "none"
        THEN [exc |-> c1.exc, msg |-> c1.msg, ret |-> "-", warnings |-> 0,
              calls |-> <<>>, reg |-> reg]
        ELSE IF c2.exc # "none"
        THEN [exc |-> c2.exc, msg |-> c2.msg, ret |-> "-", warnings |-> 0,
              calls |-> <<>>, reg |-> reg]
        ELSE [exc |-> IF raised THEN "HookError" ELSE "none",
              msg |-> "-",
              ret |-> IF raised THEN "-" ELSE subclass,
              warnings |-> OverrideWarnings(r, d.name, d.override),
              calls |-> RunHooks(HooksToRun(attr, d), subclass, d.name, r2),
              reg |-> IF raised THEN reg ELSE [reg EXCEPT ![d.cls] = r2]]

\* add_subclass_to_registry(subclass), lines 76-95
AddSubclassToRegistry(reg, attr, d, subclass) ==
    LET r == reg[d.cls]
        c1 == CheckSubclass(subclass, d.cls)
        c2 == CheckName(r, d.name, d.override)
        r2 == Put(r, d.name, subclass)
        calls == RunHooks(HooksToRun(attr, d), subclass, d.name, r2)
    IN  IF c1.exc # "none"
        THEN [exc |-> c1.exc, msg |-> c1.msg, ret |-> "-", warnings |-> 0,
              calls |-> <<>>, reg |-> reg]
        ELSE IF c2.exc # "none"
        THEN [exc |-> c2.exc, msg |-> c2.msg, ret |-> "-", warnings |-> 0,
              calls |-> <<>>, reg |-> reg]
        ELSE [exc |-> IF FirstRaise(HooksToRun(attr, d)) # 0 THEN "HookError" ELSE "none",
              msg |-> "-",
              ret |-> IF FirstRaise(HooksToRun(attr, d)) # 0 THEN "-" ELSE subclass,
              warnings |-> OverrideWarnings(r, d.name, d.override),
              calls |-> calls,
              reg |-> [reg EXCEPT ![d.cls] = r2]]

\* the namespace stays within the model's bound
Room(reg, cls, name) == HasKey(reg[cls], name) \/ Len(reg[cls]) < MaxEntries

\* what the caller of the decorator observes
RegisterCall(d, subclass, out) ==
    [NoCall EXCEPT !.op = "register", !.cls = d.cls, !.name = d.name, !.arg = subclass,
                   !.override = d.override, !.hooks = d.hooks, !.exc = out.exc,
                   !.msg = out.msg, !.ret = out.ret, !.warnings = out.warnings,
                   !.calls = out.calls]

\* @cls.register(name, override, hooks) applied to subclass at once
Register(cls, name, override, hooks, subclass) ==
    LET d == MakeDecorator(hooksAttr, cls, name, override, hooks)
        out == AddSubclassToRegistry(registry, hooksAttr, d, subclass)
    IN  /\ ~pending.active
        /\ Room(registry, cls, name)
        /\ registry' = out.reg
        /\ last' = RegisterCall(d, subclass, out)
        /\ UNCHANGED <<hooksAttr, defaultAttr, pending, memoized, threads>>

\* decorator = cls.register(name, override, hooks), kept for later
RegisterDeferred(cls, name, override, hooks) ==
    /\ ~pending.active
    /\ pending' = MakeDecorator(hooksAttr, cls, name, override, hooks)
    /\ last' = [NoCall EXCEPT !.op = "register()", !.cls = cls, !.name = name,
                              !.override = override, !.hooks = hooks]
    /\ UNCHANGED <<registry, hooksAttr, defaultAttr, memoized, threads>>

\* decorator(subclass)
ApplyDecorator(subclass) ==
    LET out == AddSubclassToRegistry(registry, hooksAttr, pending, subclass)
    IN  /\ pending.active
        /\ Room(registry, pending.cls, pending.name)
        /\ registry' = out.reg
        /\ last' = RegisterCall(pending, subclass, out)
        /\ pending' = NoDecorator
        /\ UNCHANGED <<hooksAttr, defaultAttr, memoized, threads>>

----------------------------------------------------------------------------
(* hook: lines 99-107 *)

\* if not cls._hooks: cls._hooks = []; cls._hooks.append(hook)
AddHook(attr, cls, h) ==
    IF HooksOf(attr, cls) = <<>>
    THEN [attr EXCEPT ![cls] = [has |-> TRUE, list |-> <<h>>]]
    ELSE [attr EXCEPT ![HooksOwner(attr, cls)].list = Append(@, h)]

Hook(cls, h) ==
    /\ Len(HooksOf(hooksAttr, cls)) < MaxHooks
    /\ hooksAttr' = AddHook(hooksAttr, cls, h)
    /\ last' = [NoCall EXCEPT !.op = "hook", !.cls = cls, !.arg = h, !.ret = h]
    /\ UNCHANGED <<registry, defaultAttr, pending, memoized, threads>>

----------------------------------------------------------------------------
(* by_name: lines 109-168 *)

\* storing the resolved class under the class name, not the name looked up
Memoize_UnderClassName(r, name, impl) == Put(r, ClassNameOf(name), impl)

\* Registrable._registry[cls][name] = maybe_subclass, line 162
Memoize(r, name, impl) == Put(r, name, impl)

ByName(reg, cls, name) ==
    LET r == reg[cls]
        submodule == SubmoduleOf(name)
        class_name == ClassNameOf(name)
        module == ImportModule(submodule)
        members == ModuleMembers(submodule)
        fail(exc, msg) == [exc |-> exc, msg |-> msg, ret |-> "-", reg |-> reg,
                           loads |-> <<submodule>>]
    IN  IF HasKey(r, name)
        THEN [exc |-> "none", msg |-> "-", ret |-> Get(r, name), reg |-> reg, loads |-> <<>>]
        ELSE IF HasDot(name)
        THEN IF module = "ModuleNotFoundError"
             THEN fail("RegistrationError", "unable to import module")
             ELSE IF module # "module"
             THEN fail(module, "-")
             ELSE IF class_name \notin DOMAIN members
             THEN fail("RegistrationError", "unable to find class")
             ELSE IF ~Conforms(members[class_name], cls)
             THEN fail("RegistrationError", "is not a subclass")
             ELSE [exc |-> "none", msg |-> "-", ret |-> members[class_name],
                   reg |-> [reg EXCEPT ![cls] = Memoize(r, name, members[class_name])],
                   loads |-> <<submodule>>]
        ELSE [exc |-> "RegistrationError", msg |-> "is not a registered name",
              ret |-> "-", reg |-> reg, loads |-> <<>>]

Lookup(cls, name) ==
    LET out == ByName(registry, cls, name)
    IN  /\ Len(out.reg[cls]) <= MaxEntries
        /\ registry' = out.reg
        /\ last' = [NoCall EXCEPT !.op = "by_name", !.cls = cls, !.name = name,
                                  !.exc = out.exc, !.msg = out.msg, !.ret = out.ret,
                                  !.loads = out.loads]
        /\ memoized' = IF out.reg # registry
                       THEN memoized \cup {[cls |-> cls, name |-> name, impl |-> out.ret]}
                       ELSE memoized
        /\ UNCHANGED <<hooksAttr, defaultAttr, pending, threads>>

----------------------------------------------------------------------------
(* list_available, is_registered, iter_registered: lines 170-198 *)

\* a filter that hands the kept keys back in reverse order
RECURSIVE Without_Reversed(_, _)
Without_Reversed(keys, default) ==
    IF keys = <<>> THEN <<>>
    ELSE IF keys[1] = default THEN Without_Reversed(Tail(keys), default)
    ELSE Without_Reversed(Tail(keys), default) \o <<keys[1]>>

\* [k for k in keys if k != default]
RECURSIVE Without(_, _)
Without(keys, default) ==
    IF keys = <<>> THEN <<>>
    ELSE IF keys[1] = default THEN Without(Tail(keys), default)
    ELSE <<keys[1]>> \o Without(Tail(keys), default)

InSeq(x, s) == \E i \in 1..Len(s) : s[i] = x

\* a list_available that leaves a default that is not registered out
ListAvailable_OmitsMissing(reg, dattr, cls) ==
    LET keys == Keys(reg[cls])
        default == DefaultOf(dattr, cls)
    IN  IF default.kind = "None" \/ ~InSeq(default.val, keys)
        THEN [exc |-> "none", msg |-> "-", seq |-> keys]
        ELSE [exc |-> "none", msg |-> "-", seq |-> <<default.val>> \o Without(keys, default.val)]

\* a list_available that puts the default first without looking for it
ListAvailable_NoCheck(reg, dattr, cls) ==
    LET keys == Keys(reg[cls])
        default == DefaultOf(dattr, cls)
    IN  IF default.kind = "None"
        THEN [exc |-> "none", msg |-> "-", seq |-> keys]
        ELSE [exc |-> "none", msg |-> "-", seq |-> <<default.val>> \o Without(keys, default.val)]

\* list_available, lines 170-184
ListAvailable(reg, dattr, cls) ==
    LET keys == Keys(reg[cls])
        default == DefaultOf(dattr, cls)
    IN  IF default.kind = "None"
        THEN [exc |-> "none", msg |-> "-", seq |-> keys]
        ELSE IF ~InSeq(default.val, keys)
        THEN [exc |-> "RegistrationError", msg |-> "is not registered", seq |-> <<>>]
        ELSE [exc |-> "none", msg |-> "-", seq |-> <<default.val>> \o Without(keys, default.val)]

\* an is_registered that answers by what by_name could resolve
IsRegistered_ByFallback(reg, cls, name) == ByName(reg, cls, name).exc = "none"

\* name in Registrable._registry[cls], line 191
IsRegistered(reg, cls, name) == HasKey(reg[cls], name)

\* an iter_registered that yields the latest entry first
IterRegistered_Reversed(reg, cls) ==
    [i \in 1..Len(reg[cls]) |->
        <<reg[cls][Len(reg[cls]) + 1 - i].name, reg[cls][Len(reg[cls]) + 1 - i].impl>>]

\* Registrable._registry[cls].items(), as the list of its pairs
IterRegistered(reg, cls) == [i \in 1..Len(reg[cls]) |-> <<reg[cls][i].name, reg[cls][i].impl>>]

List(cls) ==
    LET out == ListAvailable(registry, defaultAttr, cls)
    IN  /\ last' = [NoCall EXCEPT !.op = "list_available", !.cls = cls, !.exc = out.exc,
                                  !.msg = out.msg, !.seq = out.seq]
        /\ UNCHANGED <<registry, hooksAttr, defaultAttr, pending, memoized, threads>>

Check(cls, name) ==
    /\ last' = [NoCall EXCEPT !.op = "is_registered", !.cls = cls, !.name = name,
                              !.bool = IsRegistered(registry, cls, name)]
    /\ UNCHANGED <<registry, hooksAttr, defaultAttr, pending, memoized, threads>>

Iter(cls) ==
    /\ last' = [NoCall EXCEPT !.op = "iter_registered", !.cls = cls,
                              !.seq = IterRegistered(registry, cls)]
    /\ UNCHANGED <<registry, hooksAttr, defaultAttr, pending, memoized, threads>>

\* cls.default_implementation = name (or None)
SetDefault(cls, d) ==
    /\ defaultAttr' = [defaultAttr EXCEPT ![cls] = d]
    /\ last' = [NoCall EXCEPT !.op = "set_default", !.cls = cls, !.name = d.val, !.arg = d.kind]
    /\ UNCHANGED <<registry, hooksAttr, pending, memoized, threads>>

----------------------------------------------------------------------------
(* Calls made from several threads.  No call takes a lock: a thread may be  *)
(* switched out between the name check of add_subclass_to_registry (lines   *)
(* 84-91) and its write (line 92), and between by_name's lookup (line 128)  *)
(* and its store (line 162).                                                *)

Threads == {"t1", "t2"}

\* pc: "idle" outside a call, "checked" after register's checks passed,
\* "resolved" after by_name's fallback found a conforming class; warnings:
\* the warn() calls the call has made so far; dh: the default_hooks list the
\* call's closure holds
IdleThread ==
    [pc |-> "idle", cls |-> "-", name |-> NoName, override |-> FALSE, arg |-> "-",
     warnings |-> 0, dh |-> "fresh"]

\* thread t applies @cls.register(name, override) to subclass: lines 74-91. A
\* failing check ends the call; otherwise the warning of lines 90-91 is made
\* when the name is in use, and the thread stands before line 92
RegisterCheck(t, cls, name, override, subclass) ==
    LET d == MakeDecorator(hooksAttr, cls, name, override, <<>>)
        c1 == CheckSubclass(subclass, cls)
        c2 == CheckName(registry[cls], name, override)
        failed == IF c1.exc # "none" THEN c1 ELSE c2
    IN  /\ threads[t].pc = "idle"
        /\ ~pending.active
        /\ IF failed.exc # "none"
           THEN /\ last' = RegisterCall(d, subclass,
                              [exc |-> failed.exc, msg |-> failed.msg, ret |-> "-",
                               warnings |-> 0, calls |-> <<>>])
                /\ UNCHANGED threads
           ELSE /\ threads' = [threads EXCEPT ![t] =
                                  [pc |-> "checked", cls |-> cls, name |-> name,
                                   override |-> override, arg |-> subclass,
                                   warnings |-> OverrideWarnings(registry[cls], name,
                                                                 override),
                                   dh |-> d.dh]]
                /\ UNCHANGED last
        /\ UNCHANGED <<registry, hooksAttr, defaultAttr, pending, memoized>>

\* thread t goes on with lines 92-95: the write, the hooks of the closure, the
\* return
RegisterWrite(t) ==
    LET th == threads[t]
        d == [active |-> TRUE, cls |-> th.cls, name |-> th.name,
              override |-> th.override, hooks |-> <<>>, dh |-> th.dh]
        r == registry[th.cls]
        r2 == Put(r, th.name, th.arg)
        hs == HooksToRun(hooksAttr, d)
    IN  /\ th.pc = "checked"
        /\ registry' = [registry EXCEPT ![th.cls] = r2]
        /\ last' = RegisterCall(d, th.arg,
                        [exc |-> IF FirstRaise(hs) # 0 THEN "HookError" ELSE "none",
                         msg |-> "-",
                         ret |-> IF FirstRaise(hs) # 0 THEN "-" ELSE th.arg,
                         warnings |-> th.warnings,
                         calls |-> RunHooks(hs, th.arg, th.name, r2)])
        /\ threads' = [threads EXCEPT ![t] = IdleThread]
        /\ UNCHANGED <<hooksAttr, defaultAttr, pending, memoized>>

\* thread t calls cls.by_name(name): lines 128-159. A name that is a key and a
\* failing fallback end the call; otherwise the thread stands before line 162
ByNameCheck(t, cls, name) ==
    LET out == ByName(registry, cls, name)
    IN  /\ threads[t].pc = "idle"
        /\ ~pending.active
        /\ IF out.reg = registry
           THEN /\ last' = [NoCall EXCEPT !.op = "by_name", !.cls = cls, !.name = name,
                                          !.exc = out.exc, !.msg = out.msg,
                                          !.ret = out.ret, !.loads = out.loads]
                /\ UNCHANGED threads
           ELSE /\ threads' = [threads EXCEPT ![t] =
                                  [pc |-> "resolved", cls |-> cls, name |-> name,
                                   override |-> FALSE, arg |-> out.ret,
                                   warnings |-> 0, dh |-> "fresh"]]
                /\ UNCHANGED last
        /\ UNCHANGED <<registry, hooksAttr, defaultAttr, pending, memoized>>

\* thread t goes on with lines 162-163: the store and the return
ByNameStore(t) ==
    LET th == threads[t]
    IN  /\ th.pc = "resolved"
        /\ registry' = [registry EXCEPT ![th.cls] = Memoize(@, th.name, th.arg)]
        /\ memoized' = memoized \cup {[cls |-> th.cls, name |-> th.name, impl |-> th.arg]}
        /\ last' = [NoCall EXCEPT !.op = "by_name", !.cls = th.cls, !.name = th.name,
                                  !.ret = th.arg, !.loads = <<SubmoduleOf(th.name)>>]
        /\ threads' = [threads EXCEPT ![t] = IdleThread]
        /\ UNCHANGED <<hooksAttr, defaultAttr, pending>>

----------------------------------------------------------------------------
(* The state after the classes are defined *)

Init ==
    /\ registry = [c \in BaseTypes |-> <<>>]
    /\ hooksAttr = [c \in BaseTypes |-> NoAttr]
    /\ defaultAttr = [c \in BaseTypes |-> NoDefault]
    /\ pending = NoDecorator
    /\ memoized = {}
    /\ threads = [t \in Threads |-> IdleThread]
    /\ last = NoCall

----------------------------------------------------------------------------
(* The calls a program makes on one base class: every operation, with a     *)
(* decorator applied as soon as register(...) returns it                    *)

RegNames == {NameX, NameY, NamePMC}
LookupNames == {NameX, NameY, NamePMC, NamePMD, NamePMf, NamePMN, NamePNC, NamePEC,
                NameDotC, NameDotDotC}
Candidates == {"A1", "A2", "X", "fn", "obj"}
CallHooks == {<<>>, <<"h2">>, <<"hx">>}
Defaults == {StrDefault(NameX), StrDefault(NamePMC)}

Next ==
    \/ \E name \in RegNames, override \in BOOLEAN, hooks \in CallHooks,
          subclass \in Candidates :
            Register("A", name, override, hooks, subclass)
    \/ \E name \in LookupNames : Lookup("A", name)
    \/ List("A")
    \/ \E name \in {NameX, NamePMC} : Check("A", name)
    \/ Iter("A")
    \/ \E d \in Defaults : SetDefault("A", d)

Spec == Init /\ [][Next]_vars

----------------------------------------------------------------------------
(* The calls a program makes when hooks are declared on a base class and on *)
(* a class derived from it, and a decorator is kept before it is applied    *)

NextHooks ==
    \/ \E cls \in BaseTypes, h \in {"h1", "hx"} : Hook(cls, h)
    \/ \E cls \in BaseTypes, override \in BOOLEAN, hooks \in {<<>>, <<"h2">>} :
            RegisterDeferred(cls, NameX, override, hooks)
    \/ \E subclass \in {"A1", "B1"} : ApplyDecorator(subclass)

SpecHooks == Init /\ [][NextHooks]_vars

----------------------------------------------------------------------------
(* The calls a program makes on a base class and on a class derived from it *)
(* that registers under the same names                                      *)

DerivedNames == {NameX, NamePME}

NextDerived ==
    \/ \E cls \in BaseTypes, name \in DerivedNames, override \in BOOLEAN,
          subclass \in {"A1", "B1"} :
            Register(cls, name, override, <<>>, subclass)
    \/ \E cls \in BaseTypes, name \in DerivedNames : Lookup(cls, name)
    \/ \E cls \in BaseTypes : List(cls)
    \/ \E cls \in BaseTypes : SetDefault(cls, StrDefault(NameX))

SpecDerived == Init /\ [][NextDerived]_vars

----------------------------------------------------------------------------
(* The calls two threads make on one base class, under the same names, with *)
(* no lock around them                                                      *)

ThreadNames == {NameX, NamePME}

NextThreads ==
    \/ \E t \in Threads, name \in ThreadNames, override \in BOOLEAN,
          subclass \in {"A1", "A2"} :
            RegisterCheck(t, "A", name, override, subclass)
    \/ \E t \in Threads : RegisterWrite(t)
    \/ \E t \in Threads, name \in ThreadNames : ByNameCheck(t, "A", name)
    \/ \E t \in Threads : ByNameStore(t)

SpecThreads == Init /\ [][NextThreads]_vars

----------------------------------------------------------------------------
(* Properties *)

\* the error kinds of the specification, as the exceptions the code raises
DuplicateRegistration(call) ==
    call.exc = "RegistrationError" /\ call.msg = "name already in use"
InvalidImplementation(call) ==
    call.exc = "RegistrationError" /\ call.msg \in {"must be a subclass", "is not a subclass"}
NameNotFound(call) ==
    call.exc = "RegistrationError" /\ call.msg = "is not a registered name"
ModuleResolutionError(call) ==
    call.exc = "RegistrationError" /\ call.msg = "unable to import module"
MemberResolutionError(call) ==
    call.exc = "RegistrationError" /\ call.msg = "unable to find class"
MissingDefault(call) ==
    call.exc = "RegistrationError" /\ call.msg = "is not registered"

\* C1: right after register(n) applied to a subclass c succeeded on a base
\* class, is_registered(n) is true and by_name(n) returns exactly c.
C1_RegisteredAfterSuccess ==
    (last.op = "register" /\ last.exc = "none") =>
        /\ IsRegistered(registry, last.cls, last.name)
        /\ ByName(registry, last.cls, last.name).exc = "none"
        /\ ByName(registry, last.cls, last.name).ret = last.arg
        /\ last.ret = last.arg

\* C1's case: a registration with a hook that replaced an entry and succeeded
C1_Witness ==
    /\ last.op = "register" /\ last.exc = "none"
    /\ last.override /\ last.warnings = 1 /\ last.calls # <<>>

\* C2: registering a conforming subclass under a name the namespace already
\* holds, with override = False, raises the duplicate-registration error,
\* leaves the namespace as it was and calls no hook.
C2_DuplicateRejected ==
    [][(/\ last'.op = "register"
        /\ ~last'.override
        /\ Conforms(last'.arg, last'.cls)
        /\ HasKey(registry[last'.cls], last'.name))
       => (/\ DuplicateRegistration(last')
           /\ registry' = registry
           /\ last'.calls = <<>>
           /\ last'.warnings = 0)]_vars

\* C2's case: a duplicate registration that came with a hook was rejected
C2_Witness ==
    /\ last.op = "register" /\ DuplicateRegistration(last)
    /\ last.hooks # <<>> /\ Conforms(last.arg, last.cls)
    /\ Get(registry[last.cls], last.name) # last.arg

\* C3 as stated: registering a conforming subclass c2 under a registered name
\* with override = True succeeds, warns exactly once (a name not yet
\* registered: never), and by_name(name) then returns c2.
C3_OverrideSucceeds ==
    [][(last'.op = "register" /\ Conforms(last'.arg, last'.cls))
       => (/\ (HasKey(registry[last'.cls], last'.name) /\ last'.override)
                => (/\ last'.exc = "none"
                    /\ last'.warnings = 1
                    /\ ByName(registry', last'.cls, last'.name).ret = last'.arg)
           /\ ~HasKey(registry[last'.cls], last'.name) => last'.warnings = 0)]_vars

\* C3 amended: such a registration replaces the entry and warns exactly once
\* (a name not yet registered: never), by_name(name) then returns c2, and it
\* succeeds unless one of its hooks raises, whose exception the caller gets.
C3_OverrideReplaces ==
    [][(last'.op = "register" /\ Conforms(last'.arg, last'.cls))
       => (/\ (HasKey(registry[last'.cls], last'.name) /\ last'.override)
                => (/\ last'.exc \in {"none", "HookError"}
                    /\ last'.exc = "HookError"
                         <=> \E i \in 1..Len(last'.calls) : HookRaises(last'.calls[i].hook)
                    /\ last'.exc = "none" => last'.ret = last'.arg
                    /\ last'.warnings = 1
                    /\ ByName(registry', last'.cls, last'.name).exc = "none"
                    /\ ByName(registry', last'.cls, last'.name).ret = last'.arg)
           /\ ~HasKey(registry[last'.cls], last'.name) => last'.warnings = 0)]_vars

\* C3's case: an override replaced another subclass and succeeded
C3_Witness ==
    /\ last.op = "register" /\ last.exc = "none" /\ last.override
    /\ last.warnings = 1 /\ Get(registry[last.cls], last.name) = last.arg

\* C4 as stated: applying the decorator to a value that is not a class, or
\* not a subclass of the base class, raises the invalid-implementation error;
\* no hook runs, no warning is made and the namespace is as it was, whatever
\* the name and override.
C4_NonConformingRejected ==
    [][(last'.op = "register" /\ ~Conforms(last'.arg, last'.cls))
       => (/\ InvalidImplementation(last')
           /\ registry' = registry
           /\ last'.calls = <<>>
           /\ last'.warnings = 0)]_vars

\* the position of name k in a namespace: the order of first registration
Position(r, k) == IndexOf(r, k)

\* s holds every key of namespace r exactly once and nothing else
ExactlyTheKeys(s, r) ==
    /\ Len(s) = Len(r)
    /\ \A i \in 1..Len(r) : \E j \in 1..Len(s) : s[j] = r[i].name
    /\ \A i, j \in 1..Len(s) : s[i] = s[j] => i = j

\* C5: with default_implementation naming a registered name, list_available()
\* returns that name first and once, then every other registered name in
\* registration order; with no default, all names in registration order;
\* either way each registered name exactly once and nothing else.
C5_DefaultFirst ==
    last.op = "list_available" =>
        LET r == registry[last.cls]
            d == DefaultOf(defaultAttr, last.cls)
            s == last.seq
        IN  /\ d.kind = "None" => (last.exc = "none" /\ s = Keys(r))
            /\ (d.kind = "str" /\ HasKey(r, d.val)) =>
                  /\ last.exc = "none"
                  /\ s[1] = d.val
                  /\ \A i, j \in 2..Len(s) : i < j => Position(r, s[i]) < Position(r, s[j])
            /\ last.exc = "none" => ExactlyTheKeys(s, r)

\* C5's case: of three registered names the default was registered second;
\* it is listed first, followed by the first and the third name registered
C5_Witness ==
    /\ last.op = "list_available" /\ last.exc = "none"
    /\ Len(last.seq) = 3
    /\ DefaultOf(defaultAttr, last.cls).kind = "str"
    /\ last.seq[1] = DefaultOf(defaultAttr, last.cls).val
    /\ Keys(registry[last.cls])[2] = last.seq[1]
    /\ last.seq[2] = Keys(registry[last.cls])[1]
    /\ last.seq[3] = Keys(registry[last.cls])[3]

\* C6: list_available() raises the missing-default error exactly when
\* default_implementation is set to a name the namespace does not hold; it
\* neither omits the default nor resolves it through the loader (the
\* namespace is left as it was), so it succeeds once the name is registered.
C6_MissingDefault ==
    [][last'.op = "list_available" =>
        LET r == registry[last'.cls]
            d == DefaultOf(defaultAttr, last'.cls)
            missing == d.kind = "str" /\ ~HasKey(r, d.val)
        IN  /\ MissingDefault(last') <=> missing
            /\ last'.exc # "none" => MissingDefault(last')
            /\ registry' = registry
            /\ last'.loads = <<>>]_vars

\* C6's case: the default names a class the loader could resolve, is not
\* registered, and list_available() failed
C6_Witness ==
    /\ last.op = "list_available" /\ MissingDefault(last)
    /\ DefaultOf(defaultAttr, last.cls).val = NamePMC
    /\ registry[last.cls] # <<>>

\* C7 as stated: on a base class with no registrations list_available()
\* returns the empty list.
C7_EmptyList ==
    (last.op = "list_available" /\ registry[last.cls] = <<>>) =>
        (last.exc = "none" /\ last.seq = <<>>)

\* C7 amended: on a base class with no registrations list_available() returns
\* the empty list when no default_implementation is set, and raises the
\* missing-default error when one is set.
C7_EmptyListUnlessDefault ==
    (last.op = "list_available" /\ registry[last.cls] = <<>>) =>
        IF DefaultOf(defaultAttr, last.cls).kind = "None"
        THEN last.exc = "none" /\ last.seq = <<>>
        ELSE MissingDefault(last)

\* C7's case: list_available() returned on an empty namespace
C7_Witness ==
    /\ last.op = "list_available" /\ registry[last.cls] = <<>>
    /\ last.exc = "none" /\ last.seq = <<>>

\* the failure the specification orders for by_name(name) on a name that is
\* no key: "none" when the fallback is to succeed
ExpectedFailure(cls, name) ==
    IF ~HasDot(name) THEN "is not a registered name"
    ELSE IF ImportModule(SubmoduleOf(name)) # "module" THEN "unable to import module"
    ELSE IF ClassNameOf(name) \notin DOMAIN ModuleMembers(SubmoduleOf(name))
    THEN "unable to find class"
    ELSE IF ~Conforms(ModuleMembers(SubmoduleOf(name))[ClassNameOf(name)], cls)
    THEN "is not a subclass"
    ELSE "none"

\* C8 as stated: by_name(name) on a name that is no key fails with the kind
\* this order gives: no "." in the name, the module path before the last "."
\* not loadable (every failure to load it), the member absent, the member not
\* conforming.
C8_FailureOrder ==
    [][(last'.op = "by_name" /\ ~HasKey(registry[last'.cls], last'.name)) =>
        IF ExpectedFailure(last'.cls, last'.name) = "none"
        THEN last'.exc = "none"
        ELSE /\ last'.exc = "RegistrationError"
             /\ last'.msg = ExpectedFailure(last'.cls, last'.name)]_vars

\* C9 as stated: once by_name(name) succeeded through the fallback, the
\* resolved class is stored under name and every later by_name(name) returns
\* that same class.
C9_SameForEver ==
    last.op = "by_name" =>
        \A m \in memoized :
            (m.cls = last.cls /\ m.name = last.name) =>
                (last.exc = "none" /\ last.ret = m.impl)

\* C9 amended: when by_name(name) succeeds through the fallback the resolved
\* class is stored under the exact name (not registered before, registered
\* after); a later by_name(name) returns what the namespace holds under name
\* without calling the loader; and that is the resolved class until a
\* registration of name with override = True replaces it.
C9_Memoized ==
    [][/\ last'.op = "by_name" =>
            LET r == registry[last'.cls] IN
            /\ (~HasKey(r, last'.name) /\ last'.exc = "none") =>
                    /\ last'.loads = <<SubmoduleOf(last'.name)>>
                    /\ IsRegistered(registry', last'.cls, last'.name)
                    /\ Get(registry'[last'.cls], last'.name) = last'.ret
                    /\ [cls |-> last'.cls, name |-> last'.name, impl |-> last'.ret]
                            \in memoized'
            /\ HasKey(r, last'.name) =>
                    /\ last'.exc = "none"
                    /\ last'.loads = <<>>
                    /\ last'.ret = Get(r, last'.name)
                    /\ registry' = registry
       /\ \A m \in memoized :
            /\ HasKey(registry'[m.cls], m.name)
            /\ (Get(registry[m.cls], m.name) = m.impl
                    /\ Get(registry'[m.cls], m.name) # m.impl) =>
                 (/\ last'.op = "register" /\ last'.override
                  /\ last'.cls = m.cls /\ last'.name = m.name)]_vars

\* C9's case: a name the fallback resolved earlier is looked up again and
\* answered from the namespace
C9_Witness ==
    /\ last.op = "by_name" /\ last.exc = "none" /\ last.loads = <<>>
    /\ [cls |-> last.cls, name |-> last.name, impl |-> last.ret] \in memoized

\* C10 as stated: a successful registration calls the base class's default
\* hooks in declaration order, then the hooks passed to register in their
\* order, each once per occurrence, each with (subclass, name), all after the
\* entry is stored.
C10_HookOrder ==
    (last.op = "register" /\ last.exc = "none") =>
        LET hs == HooksOf(hooksAttr, last.cls) \o last.hooks
        IN  last.calls = [i \in 1..Len(hs) |->
                            [hook |-> hs[i], impl |-> last.arg, name |-> last.name,
                             stored |-> TRUE]]

\* C11: when a hook raises during a registration, the caller of the
\* registration gets the exception and the entry stays: is_registered(name)
\* is true and by_name(name) returns the subclass whose registration failed.
C11_HookFailureKeepsEntry ==
    (last.op = "register"
        /\ (last.exc = "HookError"
                \/ \E i \in 1..Len(last.calls) : HookRaises(last.calls[i].hook))) =>
        /\ last.exc = "HookError"
        /\ HookRaises(last.calls[Len(last.calls)].hook)
        /\ IsRegistered(registry, last.cls, last.name)
        /\ ByName(registry, last.cls, last.name).exc = "none"
        /\ ByName(registry, last.cls, last.name).ret = last.arg

\* C11's case: a registration of a new name failed in its hook
C11_Witness ==
    /\ last.op = "register" /\ last.exc = "HookError"
    /\ ~last.override /\ last.warnings = 0
    /\ last.calls # <<>> /\ last.calls[1].stored
    /\ Get(registry[last.cls], last.name) = last.arg

\* C12 as stated: hook(h) on a base class appends h to that class's own
\* default-hook list only: the default-hook list of every other base class,
\* one it is derived from included, is as it was, so that registrations on
\* the other class never call h.
C12_HookOwnListOnly ==
    [][last'.op = "hook" =>
        /\ HooksOf(hooksAttr', last'.cls) = Append(HooksOf(hooksAttr, last'.cls), last'.arg)
        /\ \A c \in BaseTypes \ {last'.cls} :
                HooksOf(hooksAttr', c) = HooksOf(hooksAttr, c)]_vars

\* C13: is_registered(name) returns true exactly when name is a key of the
\* base class's namespace; it makes no loader call and leaves every
\* namespace, the default implementations and the hook lists as they were, so
\* a dotted name the loader would resolve to a conforming class, and that
\* by_name never stored, is reported as not registered.
C13_ExactKeyNoEffect ==
    [][last'.op = "is_registered" =>
        /\ last'.bool <=> HasKey(registry[last'.cls], last'.name)
        /\ last'.exc = "none"
        /\ last'.loads = <<>>
        /\ registry' = registry
        /\ defaultAttr' = defaultAttr
        /\ hooksAttr' = hooksAttr
        /\ (ExpectedFailure(last'.cls, last'.name) = "none"
                /\ ~HasKey(registry[last'.cls], last'.name)) => ~last'.bool]_vars

\* C13's case: a dotted name by_name would resolve is reported as not
\* registered, in a namespace that holds another entry
C13_Witness ==
    /\ last.op = "is_registered" /\ ~last.bool
    /\ HasDot(last.name)
    /\ ByName(registry, last.cls, last.name).exc = "none"
    /\ registry[last.cls] # <<>>

\* C14: iter_registered() yields one (name, subclass) pair per entry of the
\* namespace, in registration order: as many pairs as entries, pair i naming
\* the i-th name registered, each pair's subclass the one by_name returns for
\* its name; a step that adds a name puts it after the names already there.
C14_PairsInRegistrationOrder ==
    [][/\ last'.op = "iter_registered" =>
            LET r == registry[last'.cls]
                s == last'.seq
            IN  /\ last'.exc = "none"
                /\ Len(s) = Len(r)
                /\ \A i \in 1..Len(s) :
                        /\ s[i][1] = Keys(r)[i]
                        /\ ByName(registry, last'.cls, s[i][1]).exc = "none"
                        /\ ByName(registry, last'.cls, s[i][1]).ret = s[i][2]
                        /\ ByName(registry, last'.cls, s[i][1]).loads = <<>>
                /\ \A i, j \in 1..Len(s) : s[i][1] = s[j][1] => i = j
       /\ \A c \in BaseTypes :
            /\ Len(registry'[c]) >= Len(registry[c])
            /\ Len(registry'[c]) <= Len(registry[c]) + 1
            /\ \A i \in 1..Len(registry[c]) : Keys(registry'[c])[i] = Keys(registry[c])[i]
            /\ Len(registry'[c]) > Len(registry[c]) =>
                    /\ last'.op \in {"register", "by_name"}
                    /\ last'.cls = c
                    /\ Keys(registry'[c])[Len(registry'[c])] = last'.name]_vars

\* C14's case: two pairs are yielded, the second one's entry stored by by_name
C14_Witness ==
    /\ last.op = "iter_registered"
    /\ Len(last.seq) = 2
    /\ [cls |-> last.cls, name |-> last.seq[2][1], impl |-> last.seq[2][2]] \in memoized
    /\ last.seq[1][1] = NameX

\* C15 as stated: a base class that has not set default_implementation itself
\* has none: setting it on one base class leaves what every other base class
\* reads as it was, a class derived from it included, so that list_available()
\* on a class that set no default returns its names in registration order.
C15_DefaultOwnOnly ==
    [][/\ last'.op = "set_default" =>
            \A c \in BaseTypes \ {last'.cls} :
                DefaultOf(defaultAttr', c) = DefaultOf(defaultAttr, c)
       /\ \A c \in BaseTypes :
            defaultAttr[c].kind = "absent" => DefaultOf(defaultAttr, c).kind = "None"
       /\ (last'.op = "list_available" /\ defaultAttr[last'.cls].kind = "absent") =>
            (last'.exc = "none" /\ last'.seq = Keys(registry[last'.cls]))]_vars

\* the step replaces the binding of the i-th name of base class c's namespace
Rebinds(c, i) ==
    /\ HasKey(registry'[c], registry[c][i].name)
    /\ Get(registry'[c], registry[c][i].name) # registry[c][i].impl

\* the step is a registration on c of the name n with override = True
OverrideOf(c, n) ==
    /\ last'.op = "register" /\ last'.override
    /\ last'.cls = c /\ last'.name = n

\* C16 as stated: over every step of register, by_name, list_available,
\* is_registered, iter_registered, failing or not, a key of a namespace stays
\* a key, and the subclass bound to it changes only in a step that is a
\* successful registration of that name with override = True.
C16_ReplacedOnlyBySuccessfulOverride ==
    [][\A c \in BaseTypes : \A i \in 1..Len(registry[c]) :
            /\ HasKey(registry'[c], registry[c][i].name)
            /\ Rebinds(c, i) =>
                    (OverrideOf(c, registry[c][i].name) /\ last'.exc = "none")]_vars

\* C16 amended: a key of a namespace stays a key, and the subclass bound to
\* it changes only in a step that is a registration of that name with
\* override = True which passed its checks: one that succeeds, or one whose
\* hook raises after the entry is replaced; by_name's store and registrations
\* with override = False never replace a binding.
C16_ReplacedOnlyByOverride ==
    [][\A c \in BaseTypes : \A i \in 1..Len(registry[c]) :
            /\ HasKey(registry'[c], registry[c][i].name)
            /\ Rebinds(c, i) =>
                    /\ OverrideOf(c, registry[c][i].name)
                    /\ last'.exc \in {"none", "HookError"}
                    /\ last'.warnings = 1
                    /\ Get(registry'[c], registry[c][i].name) = last'.arg
            /\ (last'.op = "by_name" \/ ~last'.override) => ~Rebinds(c, i)]_vars

\* C16's case: an override registration replaced the binding by_name had
\* stored, and its hook raised
C16_Witness ==
    /\ last.op = "register" /\ last.override /\ last.warnings = 1
    /\ last.exc = "HookError"
    /\ Get(registry[last.cls], last.name) = last.arg
    /\ \E m \in memoized : m.cls = last.cls /\ m.name = last.name /\ m.impl # last.arg

\* C17: namespaces are kept per base class: a registration or a by_name store
\* on one base class leaves the namespace of every other base class as it
\* was, entry by entry and in its order, also when both hold the same name
\* and when one class is derived from the other.
C17_NamespacesApart ==
    [][last'.op \in {"register", "by_name"} =>
        \A c \in BaseTypes \ {last'.cls} :
            /\ registry'[c] = registry[c]
            /\ IterRegistered(registry', c) = IterRegistered(registry, c)
            /\ \A n \in DerivedNames :
                    IsRegistered(registry', c, n) <=> IsRegistered(registry, c, n)]_vars

\* C17's case: a registration on the derived class put a subclass under a
\* name its base class holds with another subclass, after by_name stored a
\* name in the base class's namespace that the derived class does not hold
C17_Witness ==
    /\ last.op = "register" /\ last.exc = "none" /\ last.cls = "B"
    /\ HasKey(registry["A"], last.name)
    /\ Get(registry["A"], last.name) # Get(registry["B"], last.name)
    /\ \E m \in memoized : m.cls = "A" /\ ~HasKey(registry["B"], m.name)

\* the hooks a registration called, in the order of the calls
HooksCalled(call) == [i \in 1..Len(call.calls) |-> call.calls[i].hook]

\* C18 as stated: when the decorator register(name) returned is applied, the
\* default hooks that run are those the base class declares at that moment,
\* followed by the call's hooks (up to the first hook that raises), so a
\* default hook declared with hook() after register(name) was called and
\* before its decorator is applied runs as well.
C18_HooksAtApplication ==
    [][(last'.op = "register" /\ last'.exc \in {"none", "HookError"}) =>
        LET hs == HooksOf(hooksAttr, last'.cls) \o last'.hooks
            k == FirstRaise(hs)
        IN  HooksCalled(last') = SubSeq(hs, 1, IF k = 0 THEN Len(hs) ELSE k)]_vars

\* thread t's step writes an entry into a namespace: register's line 92 or
\* by_name's line 162
Writes(t) == threads[t].pc \in {"checked", "resolved"} /\ threads'[t].pc = "idle"

\* C19 as stated: with several threads, the check-then-write steps of
\* register and of by_name's storing path exclude each other per namespace:
\* of two registrations with override = False of one name (or such a
\* registration and a by_name store of that name) at most one writes the
\* entry, so no write without override finds the name bound already.
C19_CheckThenWriteExclusive ==
    [][\A t \in Threads :
        (Writes(t) /\ ~threads[t].override) =>
            /\ ~HasKey(registry[threads[t].cls], threads[t].name)
            /\ \A c \in BaseTypes : \A i \in 1..Len(registry[c]) :
                    Get(registry'[c], registry[c][i].name) = registry[c][i].impl]_vars

\* C20: a registration with override = True that replaces an entry keeps the
\* name where it was first registered: list_available() (no default set) and
\* the names iter_registered() yields are in the same order after it as
\* before, and only the subclass bound to the name changes.
C20_OverrideKeepsPosition ==
    [][(/\ last'.op = "register" /\ last'.override
        /\ last'.exc \in {"none", "HookError"}
        /\ HasKey(registry[last'.cls], last'.name)) =>
        LET c == last'.cls
            before == IterRegistered(registry, c)
            after == IterRegistered(registry', c)
        IN  /\ Len(after) = Len(before)
            /\ \A i \in 1..Len(before) :
                    /\ after[i][1] = before[i][1]
                    /\ after[i][2] = IF before[i][1] = last'.name THEN last'.arg
                                     ELSE before[i][2]
            /\ DefaultOf(defaultAttr, c).kind = "None" =>
                    /\ ListAvailable(registry', defaultAttr', c).exc = "none"
                    /\ ListAvailable(registry', defaultAttr', c).seq
                            = ListAvailable(registry, defaultAttr, c).seq
            /\ \A b \in BaseTypes \ {c} : registry'[b] = registry[b]]_vars

\* C20's case: an override replaced the first of two entries, one that
\* by_name had stored with another subclass, and the name is still first
C20_Witness ==
    /\ last.op = "register" /\ last.override /\ last.exc = "none"
    /\ last.warnings = 1
    /\ Len(registry[last.cls]) = 2
    /\ registry[last.cls][1] = [name |-> last.name, impl |-> last.arg]
    /\ \E m \in memoized : m.cls = last.cls /\ m.name = last.name /\ m.impl # last.arg
    /\ DefaultOf(defaultAttr, last.cls).kind = "None"

====
